---- MODULE Spec2Model ----
(***************************************************************************)
(* Converge: the database task queue (converge/queue/db.py), the polling   *)
(* worker (converge/worker/poller.py) and the coordination graph           *)
(* (converge/orchestration/graph.py), as state machines.                   *)
(*                                                                         *)
(* Every single-row queue operation opens one session, reads the row,      *)
(* writes it and commits: it is one step.  poll_and_claim reads a set of   *)
(* rows and writes them at commit; its SELECT and its commit are two       *)
(* steps, and what may happen between them depends on the dialect.         *)
(***************************************************************************)
EXTENDS Integers, Sequences, FiniteSets, TLC

\* ------------------------------------------------------------------ bounds
MaxTasks == 2
MaxDirectTasks == 1
BatchSize == 2
MaxRounds == 3
NumRepos == 2
MaxChange == 2

\* ------------------------------------------------------- program constants
MaxAttempts == 3
MAX_ERROR_LENGTH == 500
worker_batch_size == 1

Workers == {"w1", "w2"}
Submitters == {"s1", "s2"}
TaskIds == 1..MaxTasks
Dialects == {"postgresql", "sqlite"}

NoneStr == "None"
NoneJson == <<>>

\* TaskStatus values
PENDING == "PENDING"
CLAIMED == "CLAIMED"
RUNNING == "RUNNING"
SUCCEEDED == "SUCCEEDED"
FAILED == "FAILED"
HITL_REQUIRED == "HITL_REQUIRED"
CANCELLED == "CANCELLED"
TaskStatus == {PENDING, CLAIMED, RUNNING, SUCCEEDED, FAILED, HITL_REQUIRED, CANCELLED}

\* inputs of the operations
Sources == {NoneStr, "", "a", "a:b"}
IdemKeys == {NoneStr, "", "c", "b:c"}
Resolutions == {"{}", "{action:go}"}
QuestionLists == {<<>>, <<"q1">>}
ErrorTexts == {"boom"}

\* what an engine failure says: a short text, and one of MAX_ERROR_LENGTH + 1 characters
Twice(s) == s \o s
LongMessage == SubSeq(Twice(Twice(Twice(Twice(Twice(Twice(Twice(Twice(Twice("x"))))))))),
                      1, MAX_ERROR_LENGTH + 1)
EngineMessages == {"boom", LongMessage}

VARIABLES
    dialect,   \* backend name of the engine URL
    rows,      \* the tasks table: id -> TaskRow
    worker,    \* each PollingWorker's position in run_once
    sub,       \* each submitter's position in enqueue_with_dedupe
    lastResult,\* how the last direct queue call ended: a value, or the exception
    enqRet,    \* (source, idempotency_key, id) triples returned by enqueue_with_dedupe
    resolved,  \* id -> the resolution last accepted from a human (NoneStr: none yet)
    raisedRuns,\* id -> engine runs of the task so far if all of them raised, else -1
    cancelled, \* ids of the tasks on which a cancel call has succeeded
    handler,   \* each ingest request's position in _enqueue_with_optional_dedupe
    responses, \* what the ingest requests answered, and whether they created the task
    forever,   \* each worker's position in run_forever, and its stop_event
    cli,       \* the coordinate command: its position, its task and its outcome
    exec,      \* one CodexApplyExecutor.apply call: its position, inputs and result
    coord,     \* one Coordinator: its config, its CoordinationState and its position
    run        \* one invocation of the coordination graph: OrchestrationState + node

vars == <<coord, exec, dialect, rows, worker, sub, lastResult, enqRet, resolved, raisedRuns, cancelled, handler, responses, forever, cli, run>>
queueVars == <<coord, exec, dialect, rows, worker, sub, lastResult, enqRet, resolved, raisedRuns, cancelled, handler, responses, forever, cli>>

Range(s) == {s[i] : i \in 1..Len(s)}

\* json.dumps / json.loads: a dumped value is a non-empty string, never None
JsonDumps(v) == <<"json", v>>
JsonLoads(j) == j[2]
Truthy(j) == j # NoneJson

\* ---------------------------------------------------------------- rows
\* a key built from empty strings too
build_dedupe_key_joins_empty(source, idempotency_key) ==
    IF source = NoneStr \/ idempotency_key = NoneStr
    THEN NoneStr
    ELSE source \o ":" \o idempotency_key

build_dedupe_key(source, idempotency_key) ==
    IF source = NoneStr \/ source = "" \/ idempotency_key = NoneStr \/ idempotency_key = ""
    THEN NoneStr
    ELSE source \o ":" \o idempotency_key

NewRow(now, source, idempotency_key) ==
    [status |-> PENDING,
     created_at |-> now,
     attempts |-> 0,
     request_json |-> "request",
     last_error |-> NoneStr,
     artifacts_dir |-> NoneStr,
     claimed_at |-> FALSE,
     source |-> source,
     idempotency_key |-> idempotency_key,
     dedupe_key |-> build_dedupe_key(source, idempotency_key),
     hitl_questions_json |-> NoneJson,
     hitl_resolution_json |-> NoneJson,
     status_reason |-> NoneStr]

\* the clock of created_at: one tick per inserted row
Now == Cardinality(DOMAIN rows) + 1

\* str(uuid4()): ids are opaque and carry no order; the model takes the largest free one
FreshId == CHOOSE id \in TaskIds \ DOMAIN rows : \A o \in TaskIds \ DOMAIN rows : o <= id

\* a lookup by the source and idempotency_key columns
find_by_source_idempotency_by_columns(source, idempotency_key) ==
    {id \in DOMAIN rows : /\ rows[id].source = source
                          /\ rows[id].idempotency_key = idempotency_key}

find_by_source_idempotency(source, idempotency_key) ==
    LET dk == build_dedupe_key(source, idempotency_key)
    IN IF dk = NoneStr THEN {}
       ELSE {id \in DOMAIN rows : rows[id].dedupe_key = dk}

\* no unique index
unique_violation_never(dedupe_key) == FALSE

\* the unique index on tasks.dedupe_key: NULLs never collide
unique_violation(dedupe_key) ==
    /\ dedupe_key # NoneStr
    /\ \E id \in DOMAIN rows : rows[id].dedupe_key = dedupe_key

\* rows a FOR UPDATE SKIP LOCKED select of another session holds until its commit
LockedByOther(id, w) ==
    /\ dialect = "postgresql"
    /\ \E o \in Workers \ {w} : worker[o].pc = "claiming" /\ id \in Range(worker[o].sel)

\* ids ordered by created_at ascending
RECURSIVE OrderByCreatedAt(_)
OrderByCreatedAt(S) ==
    IF S = {} THEN <<>>
    ELSE LET first == CHOOSE id \in S : \A o \in S : rows[id].created_at <= rows[o].created_at
         IN <<first>> \o OrderByCreatedAt(S \ {first})

\* a query without .limit(limit)
Limit_unbounded(s, n) == s

Limit(s, n) == SubSeq(s, 1, IF Len(s) < n THEN Len(s) ELSE n)

\* a SELECT that leaves the status filter out
poll_select_any_status(w, limit) ==
    Limit(OrderByCreatedAt(DOMAIN rows), limit)

\* a SELECT without FOR UPDATE SKIP LOCKED
poll_select_no_lock(w, limit) ==
    Limit(OrderByCreatedAt({id \in DOMAIN rows : rows[id].status = PENDING}), limit)

\* the SELECT of poll_and_claim
poll_select(w, limit) ==
    LET pending == {id \in DOMAIN rows : rows[id].status = PENDING}
        visible == IF dialect = "postgresql"
                   THEN {id \in pending : ~LockedByOther(id, w)}
                   ELSE pending
    IN Limit(OrderByCreatedAt(visible), limit)

\* a claim that counts as an attempt
poll_commit_counts_attempt(sel) ==
    [id \in DOMAIN rows |->
        IF id \in Range(sel)
        THEN [rows[id] EXCEPT !.status = CLAIMED, !.claimed_at = TRUE,
                              !.attempts = @ + 1]
        ELSE rows[id]]

\* the UPDATE and commit of poll_and_claim
poll_commit(sel) ==
    [id \in DOMAIN rows |->
        IF id \in Range(sel)
        THEN [rows[id] EXCEPT !.status = CLAIMED, !.claimed_at = TRUE]
        ELSE rows[id]]

\* a mark_running that writes nothing
mark_running_skipped(id) == rows

mark_running(id) ==
    [rows EXCEPT ![id].status = RUNNING]

complete(id, result) ==
    [rows EXCEPT ![id] =
        [@ EXCEPT !.status = result.status,
                  !.artifacts_dir = result.artifacts_dir,
                  !.last_error = NoneStr,
                  !.hitl_questions_json =
                      IF result.status = HITL_REQUIRED /\ result.hitl_questions # <<>>
                      THEN JsonDumps(result.hitl_questions)
                      ELSE @,
                  !.status_reason = result.status_reason]]

\* a retry test that is off by one
fail_off_by_one(id, error, retryable) ==
    LET attempts == rows[id].attempts + 1
    IN [rows EXCEPT ![id] =
           IF retryable /\ attempts <= MaxAttempts
           THEN [@ EXCEPT !.attempts = attempts, !.last_error = error,
                          !.status = PENDING, !.claimed_at = FALSE]
           ELSE [@ EXCEPT !.attempts = attempts, !.last_error = error,
                          !.status = FAILED]]

\* a fail that requeues whatever the attempts
fail_always_requeue(id, error, retryable) ==
    [rows EXCEPT ![id] = [@ EXCEPT !.attempts = @ + 1, !.last_error = error,
                                   !.status = PENDING, !.claimed_at = FALSE]]

fail(id, error, retryable) ==
    LET attempts == rows[id].attempts + 1
    IN [rows EXCEPT ![id] =
           IF retryable /\ attempts < MaxAttempts
           THEN [@ EXCEPT !.attempts = attempts, !.last_error = error,
                          !.status = PENDING, !.claimed_at = FALSE]
           ELSE [@ EXCEPT !.attempts = attempts, !.last_error = error,
                          !.status = FAILED]]

get_hitl_questions(id) ==
    IF Truthy(rows[id].hitl_questions_json)
    THEN JsonLoads(rows[id].hitl_questions_json)
    ELSE <<>>

\* a read of the unused resolution_json column instead
get_hitl_resolution_wrong_column(id) == NoneStr

get_hitl_resolution(id) ==
    IF Truthy(rows[id].hitl_resolution_json)
    THEN JsonLoads(rows[id].hitl_resolution_json)
    ELSE NoneStr

\* no status check
resolve_hitl_unchecked(id) == TRUE

resolve_hitl_allowed(id) == rows[id].status = HITL_REQUIRED

\* a resolve that stores the resolution and forgets to requeue
resolve_hitl_no_requeue(id, resolution) ==
    [rows EXCEPT ![id].hitl_resolution_json = JsonDumps(resolution)]

resolve_hitl(id, resolution) ==
    [rows EXCEPT ![id] =
        [@ EXCEPT !.hitl_resolution_json = JsonDumps(resolution),
                  !.status = PENDING,
                  !.claimed_at = FALSE]]

\* no status check
cancel_unchecked(id) == TRUE

cancel_allowed(id) == rows[id].status \notin {SUCCEEDED, FAILED}

cancel(id) ==
    [rows EXCEPT ![id].status = CANCELLED]

\* ---------------------------------------------------------------- Init
NoCall == [thread_id |-> 0, hitl_resolution |-> NoneStr]
NoOutcome == [status |-> NoneStr, hitl_questions |-> <<>>, message |-> ""]

IdleWorker ==
    [pc |-> "idle", sel |-> <<>>, batch |-> <<>>, idx |-> 0,
     call |-> NoCall, outcome |-> NoOutcome, conc |-> {}, ret |-> -1]

IdleCli == [pc |-> "idle", task |-> 0, outcome |-> NoOutcome]

IdleHandler ==
    [pc |-> "idle", source |-> NoneStr, idempotency_key |-> NoneStr, existing |-> FALSE]

IdleSub == [pc |-> "idle", source |-> NoneStr, idempotency_key |-> NoneStr]

\* ExecResult: ok, exit_code and threshold_exceeded (the message, logs and diff
\* figures carry no decision)
ExecResult(ok, exit_code, threshold_exceeded) ==
    [ok |-> ok, exit_code |-> exit_code, threshold_exceeded |-> threshold_exceeded]

NoChanges == [files |-> 0, lines |-> 0, bytes |-> 0]

\* before apply is called: the environment's defaults, an executor without limits
IdleExec ==
    [pc |-> "idle",
     env |-> [execution_mode |-> "plan", codex_apply_enabled |-> FALSE,
              allow_dirty |-> FALSE, create_branch_flag |-> TRUE, git_commit |-> TRUE],
     repo |-> [is_git_repo |-> FALSE, tree |-> "clean", codex_available |-> FALSE],
     self |-> [max_changed_files |-> <<>>, max_diff_lines |-> <<>>, max_diff_bytes |-> <<>>,
               allowlisted_commands |-> <<>>],
     verification_cmds |-> <<>>,
     did |-> {},
     returncode |-> -1,
     changes |-> NoChanges,
     measured |-> NoChanges,
     result |-> ExecResult(FALSE, -1, FALSE)]

\* CoordinationState as the dataclass's defaults give it, before a Coordinator exists
IdleCoord ==
    [pc |-> "idle",
     repos |-> <<>>,
     max_rounds |-> 2,
     status |-> "initialized",
     round_number |-> 0,
     missing |-> <<>>,
     assignments |-> 0,
     decisions |-> 0,
     rounds |-> 0]

InitQueue ==
    /\ dialect \in Dialects
    /\ rows = <<>>
    /\ worker = [w \in Workers |-> IdleWorker]
    /\ sub = [s \in Submitters |-> IdleSub]
    /\ lastResult = NoneStr
    /\ enqRet = {}
    /\ resolved = [id \in TaskIds |-> NoneStr]
    /\ raisedRuns = [id \in TaskIds |-> 0]
    /\ cancelled = {}
    /\ handler = [s \in Submitters |-> IdleHandler]
    /\ responses = {}
    /\ cli = IdleCli
    /\ exec = IdleExec
    /\ coord = IdleCoord
    /\ forever = [w \in Workers |-> [pc |-> "idle", stop_event |-> NoneStr]]

\* the graph's nodes and END
END == "__END__"
Repos == 1..NumRepos
PlanStatuses == {"OK", "HITL_REQUIRED", "FAILED"}

\* the initial OrchestrationState of a run over repositories of which fs[r] exist
InitialState(hil_mode, runtime, max_rounds, fs) ==
    [node |-> "collect_constraints_node",
     hil_mode |-> hil_mode,
     runtime |-> runtime,
     fs |-> fs,
     exists |-> [r \in Repos |-> FALSE],
     round |-> 0,
     max_rounds |-> max_rounds,
     events |-> <<>>,
     status |-> "FAILED",
     proposal |-> "",
     repo_plans |-> <<>>,
     contract_issues |-> 0,
     human_decision |-> NoneStr,
     checkpoint |-> <<>>,
     suspended_at |-> <<>>,
     resume |-> NoneStr]

NoRun == InitialState("conditional", "compat", 1, [r \in Repos |-> TRUE])

Init ==
    /\ InitQueue
    /\ run = [NoRun EXCEPT !.node = END]

\* ConvergeConfig admits max_rounds >= 1 and hil_mode conditional or interrupt
InitGraph ==
    /\ InitQueue
    /\ dialect = "sqlite"
    /\ \E hil_mode \in {"conditional", "interrupt"}, runtime \in {"compat", "langgraph"},
          max_rounds \in 1..MaxRounds, fs \in [Repos -> BOOLEAN] :
          run = InitialState(hil_mode, runtime, max_rounds, fs)

\* ------------------------------------------------------- enqueue_with_dedupe
\* session.add + commit: the unique index on dedupe_key decides
EnqueueInsert(s, source, idempotency_key) ==
    /\ sub[s].pc = "idle"
    /\ IF unique_violation(build_dedupe_key(source, idempotency_key))
       THEN \* IntegrityError: rollback, then look the existing row up
            /\ sub' = [sub EXCEPT ![s] = [pc |-> "lookup", source |-> source,
                                          idempotency_key |-> idempotency_key]]
            /\ UNCHANGED <<rows, lastResult, enqRet>>
       ELSE /\ Cardinality(DOMAIN rows) < MaxTasks
            /\ rows' = (FreshId :> NewRow(Now, source, idempotency_key)) @@ rows
            /\ enqRet' = enqRet \cup {<<source, idempotency_key, FreshId>>}
            /\ lastResult' = "created"
            /\ UNCHANGED sub
    /\ UNCHANGED <<coord, exec, cli, forever, run, cancelled, handler, responses, dialect, worker, resolved, raisedRuns>>

EnqueueLookup(s) ==
    /\ sub[s].pc = "lookup"
    /\ LET existing == find_by_source_idempotency(sub[s].source, sub[s].idempotency_key)
       IN IF existing = {}
          THEN /\ lastResult' = "IntegrityError"
               /\ UNCHANGED enqRet
          ELSE \E id \in existing :
                 /\ enqRet' = enqRet \cup {<<sub[s].source, sub[s].idempotency_key, id>>}
                 /\ lastResult' = "existing"
    /\ sub' = [sub EXCEPT ![s] = IdleSub]
    /\ UNCHANGED <<coord, exec, cli, forever, run, cancelled, handler, responses, dialect, rows, worker, resolved, raisedRuns>>

\* enqueue(request): enqueue_with_dedupe(request, source=None, idempotency_key=None)
Enqueue(cap) ==
    /\ Cardinality(DOMAIN rows) < cap
    /\ rows' = (FreshId :> NewRow(Now, NoneStr, NoneStr)) @@ rows
    /\ lastResult' = "created"
    /\ UNCHANGED <<coord, exec, cli, forever, run, cancelled, handler, responses, dialect, worker, sub, enqRet, resolved, raisedRuns>>

\* ------------------------------------------- _enqueue_with_optional_dedupe
\* existing = queue.find_by_source_idempotency(source, idempotency_key)
IngestFind(s, source, idempotency_key) ==
    /\ handler[s].pc = "idle"
    /\ handler' = [handler EXCEPT ![s] =
          [pc |-> "enqueue", source |-> source, idempotency_key |-> idempotency_key,
           existing |-> find_by_source_idempotency(source, idempotency_key) # {}]]
    /\ UNCHANGED <<coord, exec, cli, forever, run, cancelled, responses, dialect, rows, worker, sub, lastResult,
                   enqRet, resolved, raisedRuns>>

\* return task, existing is not None
IngestResponse(s, id, created) ==
    [source |-> handler[s].source, idempotency_key |-> handler[s].idempotency_key,
     task |-> id, deduped |-> handler[s].existing, created |-> created]

\* task = queue.enqueue_with_dedupe(...): session.add + commit
IngestInsert(s) ==
    /\ handler[s].pc = "enqueue"
    /\ IF unique_violation(build_dedupe_key(handler[s].source, handler[s].idempotency_key))
       THEN /\ handler' = [handler EXCEPT ![s].pc = "lookup"]
            /\ UNCHANGED <<rows, lastResult, responses>>
       ELSE /\ Cardinality(DOMAIN rows) < MaxTasks
            /\ rows' = (FreshId :> NewRow(Now, handler[s].source,
                                          handler[s].idempotency_key)) @@ rows
            /\ responses' = responses \cup {IngestResponse(s, FreshId, TRUE)}
            /\ lastResult' = "created"
            /\ handler' = [handler EXCEPT ![s] = IdleHandler]
    /\ UNCHANGED <<coord, exec, cli, forever, run, cancelled, dialect, worker, sub, enqRet, resolved, raisedRuns>>

\* task = queue.enqueue_with_dedupe(...): the lookup after IntegrityError
IngestLookup(s) ==
    /\ handler[s].pc = "lookup"
    /\ LET existing == find_by_source_idempotency(handler[s].source,
                                                  handler[s].idempotency_key)
       IN IF existing = {}
          THEN /\ lastResult' = "IntegrityError"
               /\ UNCHANGED responses
          ELSE \E id \in existing :
                 /\ responses' = responses \cup {IngestResponse(s, id, FALSE)}
                 /\ lastResult' = "existing"
    /\ handler' = [handler EXCEPT ![s] = IdleHandler]
    /\ UNCHANGED <<coord, exec, cli, forever, run, cancelled, dialect, rows, worker, sub, enqRet, resolved, raisedRuns>>

\* ------------------------------------------------------------ poll_and_claim
\* poll_and_claim(limit), the SELECT
PollSelectLimit(w, limit) ==
    /\ worker[w].pc = "idle"
    /\ worker' = [worker EXCEPT ![w] =
                    [IdleWorker EXCEPT !.pc = "claiming",
                                       !.sel = poll_select(w, limit)]]
    /\ UNCHANGED <<coord, exec, cli, forever, run, cancelled, handler, responses, dialect, rows, sub, lastResult, enqRet, resolved, raisedRuns>>

\* poll_and_claim(self._batch_size)
PollSelect(w) == PollSelectLimit(w, BatchSize)

\* the commit; every call still in flight has now overlapped a call that returned sel
Returned(w, pc) ==
    [o \in Workers |->
        IF o = w
        THEN [worker[w] EXCEPT !.pc = pc, !.batch = worker[w].sel, !.sel = <<>>,
                               !.idx = IF worker[w].sel = <<>> THEN 0 ELSE 1]
        ELSE IF worker[o].pc = "claiming"
             THEN [worker[o] EXCEPT !.conc = @ \cup Range(worker[w].sel)]
             ELSE worker[o]]

\* poll_and_claim called directly: the caller gets the batch and is done
PollReturn(w) ==
    /\ worker[w].pc = "claiming"
    /\ rows' = poll_commit(worker[w].sel)
    /\ worker' = Returned(w, "idle")
    /\ UNCHANGED <<coord, exec, cli, forever, run, cancelled, handler, responses, dialect, sub, lastResult, enqRet, resolved, raisedRuns>>

\* ------------------------------------------------------- PollingWorker.run_once
\* tasks = self._queue.poll_and_claim(self._batch_size), the commit
RunOncePoll(w) ==
    /\ worker[w].pc = "claiming"
    /\ rows' = poll_commit(worker[w].sel)
    /\ worker' = IF worker[w].sel = <<>>
                 THEN [Returned(w, "idle") EXCEPT ![w].ret = 0]
                 ELSE Returned(w, "mark")
    /\ UNCHANGED <<coord, exec, cli, forever, run, cancelled, handler, responses, dialect, sub, lastResult, enqRet, resolved, raisedRuns>>

Current(w) == worker[w].batch[worker[w].idx]

\* self._queue.mark_running(task.id)
MarkRunning(w) ==
    /\ worker[w].pc = "mark"
    /\ ~LockedByOther(Current(w), w)
    /\ rows' = mark_running(Current(w))
    /\ worker' = [worker EXCEPT ![w].pc = "run"]
    /\ UNCHANGED <<coord, exec, cli, forever, run, cancelled, handler, responses, dialect, sub, lastResult, enqRet, resolved, raisedRuns>>

\* what run_coordinate may give back: a RunOutcome, or an exception
RunOutcomes ==
    [status : {"CONVERGED"}, hitl_questions : {<<>>}, message : {""}]
    \cup [status : {"HITL_REQUIRED"}, hitl_questions : QuestionLists, message : {""}]
    \cup [status : {"FAILED", "RAISED"}, hitl_questions : {<<>>}, message : EngineMessages]

\* the arguments run_once passes to run_coordinate
EngineCall(id) ==
    [thread_id |-> id, hitl_resolution |-> get_hitl_resolution(id)]

\* hitl_resolution = get_hitl_resolution(task.id); outcome = run_coordinate(...)
RunEngine(w) ==
    /\ worker[w].pc = "run"
    /\ \E outcome \in RunOutcomes :
         /\ worker' = [worker EXCEPT ![w].pc = "report",
                                     ![w].call = EngineCall(Current(w)),
                                     ![w].outcome = outcome]
         /\ raisedRuns' = [raisedRuns EXCEPT ![Current(w)] =
                              IF @ >= 0 /\ @ <= MaxAttempts /\ outcome.status = "RAISED"
                              THEN @ + 1 ELSE -1]
    /\ UNCHANGED <<coord, exec, cli, forever, run, cancelled, handler, responses, dialect, rows, sub, lastResult, enqRet, resolved>>

\* the next task of the batch, or the end of run_once
Advance(w) ==
    IF worker[w].idx < Len(worker[w].batch)
    THEN [worker EXCEPT ![w].pc = "mark", ![w].idx = @ + 1,
                        ![w].call = NoCall, ![w].outcome = NoOutcome]
    ELSE [worker EXCEPT ![w] = [IdleWorker EXCEPT !.ret = Len(worker[w].batch)]]

\* a slice that keeps the whole text
Truncate_keeps_all(message) == message

\* message[:_MAX_ERROR_LENGTH]
Truncate(message) ==
    SubSeq(message, 1, IF Len(message) < MAX_ERROR_LENGTH THEN Len(message)
                       ELSE MAX_ERROR_LENGTH)

\* except Exception: everything run_coordinate raises is caught inside the loop
ExceptionCaught == TRUE

\* only the except branch reports a failure
ReportsFail_only_raised(outcome) == outcome.status = "RAISED"

ReportsFail(outcome) == outcome.status \in {"FAILED", "RAISED"}

TaskResultOf(outcome) ==
    [status |-> IF outcome.status = "HITL_REQUIRED" THEN HITL_REQUIRED ELSE SUCCEEDED,
     artifacts_dir |-> "run_dir",
     hitl_questions |-> outcome.hitl_questions,
     status_reason |-> NoneStr]

\* outcome FAILED, or the except branch: fail(task.id, message[:500], retryable=True)
ReportFail(w) ==
    /\ worker[w].pc = "report"
    /\ ReportsFail(worker[w].outcome)
    /\ ~LockedByOther(Current(w), w)
    /\ IF worker[w].outcome.status = "RAISED" /\ ~ExceptionCaught
       THEN /\ worker' = [worker EXCEPT ![w].pc = "crashed"]
            /\ UNCHANGED rows
       ELSE /\ rows' = fail(Current(w), Truncate(worker[w].outcome.message), TRUE)
            /\ worker' = Advance(w)
    /\ UNCHANGED <<coord, exec, cli, forever, run, cancelled, handler, responses, dialect, sub, lastResult, enqRet, resolved, raisedRuns>>

\* self._queue.complete(task.id, result)
ReportComplete(w) ==
    /\ worker[w].pc = "report"
    /\ ~ReportsFail(worker[w].outcome)
    /\ ~LockedByOther(Current(w), w)
    /\ rows' = complete(Current(w), TaskResultOf(worker[w].outcome))
    /\ worker' = Advance(w)
    /\ UNCHANGED <<coord, exec, cli, forever, run, cancelled, handler, responses, dialect, sub, lastResult, enqRet, resolved, raisedRuns>>

\* ------------------------------------------------- PollingWorker.run_forever
\* a loop that never looks at the stop signal
should_stop_never(stop_event) == FALSE

\* stop_event and stop_event.is_set()
should_stop(stop_event) == stop_event # NoneStr /\ stop_event = "set"

\* worker.run_forever(stop_event): without an event, or with one not yet set
RunForever(w, stop_event) ==
    /\ forever[w].pc = "idle"
    /\ worker[w].pc = "idle"
    /\ forever' = [forever EXCEPT ![w] = [pc |-> "check", stop_event |-> stop_event]]
    /\ UNCHANGED <<coord, exec, cli, run, cancelled, handler, responses, dialect, rows, worker, sub,
                   lastResult, enqRet, resolved, raisedRuns>>

\* somebody sets the stop signal
SetStop(w) ==
    /\ forever[w].stop_event = "clear"
    /\ forever' = [forever EXCEPT ![w].stop_event = "set"]
    /\ UNCHANGED <<coord, exec, cli, run, cancelled, handler, responses, dialect, rows, worker, sub,
                   lastResult, enqRet, resolved, raisedRuns>>

\* the top of the while loop: return, or call run_once
CheckStop(w) ==
    /\ forever[w].pc = "check"
    /\ forever' = [forever EXCEPT ![w].pc = IF should_stop(forever[w].stop_event)
                                            THEN "returned" ELSE "run_once"]
    /\ worker' = [worker EXCEPT ![w] = IdleWorker]
    /\ UNCHANGED <<coord, exec, cli, run, cancelled, handler, responses, dialect, rows, sub, lastResult,
                   enqRet, resolved, raisedRuns>>

\* self.run_once(), its first statement
CallRunOnce(w) ==
    /\ forever[w].pc = "run_once"
    /\ worker[w].ret = -1
    /\ PollSelect(w)

\* run_once has returned: time.sleep(self._poll_interval_seconds)
Sleep(w) ==
    /\ forever[w].pc = "run_once"
    /\ worker[w].pc = "idle"
    /\ worker[w].ret >= 0
    /\ forever' = [forever EXCEPT ![w].pc = "check"]
    /\ UNCHANGED <<coord, exec, cli, run, cancelled, handler, responses, dialect, rows, worker, sub,
                   lastResult, enqRet, resolved, raisedRuns>>

\* a row held by the SELECT of a poll_and_claim call in flight
Locked(id) == LockedByOther(id, "api")

\* ------------------------------------------------------ converge coordinate
\* task = queue.enqueue(task_request)
CliEnqueue ==
    /\ cli.pc = "idle"
    /\ Cardinality(DOMAIN rows) < MaxTasks
    /\ rows' = (FreshId :> NewRow(Now, NoneStr, NoneStr)) @@ rows
    /\ cli' = [IdleCli EXCEPT !.pc = "mark", !.task = FreshId]
    /\ lastResult' = "created"
    /\ UNCHANGED <<coord, exec, forever, run, cancelled, handler, responses, dialect, worker, sub,
                   enqRet, resolved, raisedRuns>>

\* queue.mark_running(task.id)
CliMarkRunning ==
    /\ cli.pc = "mark"
    /\ ~Locked(cli.task)
    /\ rows' = mark_running(cli.task)
    /\ cli' = [cli EXCEPT !.pc = "run"]
    /\ UNCHANGED <<coord, exec, forever, run, cancelled, handler, responses, dialect, worker, sub,
                   lastResult, enqRet, resolved, raisedRuns>>

\* outcome = run_coordinate(..., thread_id=persisted_task_id), when it returns
CliRunCoordinate ==
    /\ cli.pc = "run"
    /\ \E outcome \in {o \in RunOutcomes : o.status # "RAISED"} :
         cli' = [cli EXCEPT !.pc = "report", !.outcome = outcome]
    /\ UNCHANGED <<coord, exec, forever, run, cancelled, handler, responses, dialect, rows, worker,
                   sub, lastResult, enqRet, resolved, raisedRuns>>

\* queue.fail(id, outcome.summary[:500], retryable=False) or queue.complete(id, result)
CliReport ==
    /\ cli.pc = "report"
    /\ ~Locked(cli.task)
    /\ rows' = IF cli.outcome.status = "FAILED"
               THEN fail(cli.task, Truncate(cli.outcome.message), FALSE)
               ELSE complete(cli.task, TaskResultOf(cli.outcome))
    /\ cli' = [cli EXCEPT !.pc = "idle"]
    /\ UNCHANGED <<coord, exec, forever, run, cancelled, handler, responses, dialect, worker, sub,
                   lastResult, enqRet, resolved, raisedRuns>>

\* ------------------------------------------------------- direct queue calls
\* _get_row: ValueError("Task not found")
NotFound(id) ==
    /\ id \notin DOMAIN rows
    /\ lastResult' = "ValueError: Task not found"
    /\ UNCHANGED <<coord, exec, cli, forever, run, cancelled, handler, responses, dialect, rows, worker, sub, enqRet, resolved, raisedRuns>>

ResolveHitl(id, resolution) ==
    /\ id \in DOMAIN rows
    /\ ~Locked(id)
    /\ IF resolve_hitl_allowed(id)
       THEN /\ rows' = resolve_hitl(id, resolution)
            /\ resolved' = [resolved EXCEPT ![id] = resolution]
            /\ lastResult' = "resolved"
       ELSE /\ lastResult' = "ValueError: not in HITL_REQUIRED status"
            /\ UNCHANGED <<rows, resolved>>
    /\ UNCHANGED <<coord, exec, cli, forever, run, cancelled, handler, responses, dialect, worker, sub, enqRet, raisedRuns>>

Cancel(id) ==
    /\ id \in DOMAIN rows
    /\ ~Locked(id)
    /\ IF cancel_allowed(id)
       THEN /\ rows' = cancel(id)
            /\ cancelled' = cancelled \cup {id}
            /\ lastResult' = "cancelled"
       ELSE /\ lastResult' = "ValueError: Cannot cancel"
            /\ UNCHANGED <<rows, cancelled>>
    /\ UNCHANGED <<coord, exec, cli, forever, run, handler, responses, dialect, worker, sub, enqRet, resolved, raisedRuns>>

CallMarkRunning(id) ==
    /\ id \in DOMAIN rows
    /\ ~Locked(id)
    /\ rows' = mark_running(id)
    /\ lastResult' = "ok"
    /\ UNCHANGED <<coord, exec, cli, forever, run, cancelled, handler, responses, dialect, worker, sub, enqRet, resolved, raisedRuns>>

TaskResults ==
    [status : {SUCCEEDED, HITL_REQUIRED},
     artifacts_dir : {"run_dir"},
     hitl_questions : QuestionLists,
     status_reason : {NoneStr, "why"}]

CallComplete(id, result) ==
    /\ id \in DOMAIN rows
    /\ ~Locked(id)
    /\ rows' = complete(id, result)
    /\ lastResult' = "ok"
    /\ UNCHANGED <<coord, exec, cli, forever, run, cancelled, handler, responses, dialect, worker, sub, enqRet, resolved, raisedRuns>>

CallFail(id, error, retryable) ==
    /\ id \in DOMAIN rows
    /\ ~Locked(id)
    /\ rows[id].attempts < MaxAttempts
    /\ rows' = fail(id, error, retryable)
    /\ lastResult' = "ok"
    /\ UNCHANGED <<coord, exec, cli, forever, run, cancelled, handler, responses, dialect, worker, sub, enqRet, resolved, raisedRuns>>

\* --------------------------------------------------------- specifications
\* the queue as an object: every operation, called by anyone in any order
Next ==
    \/ Enqueue(MaxDirectTasks)
    \/ \E w \in Workers : PollSelect(w)
    \/ \E w \in Workers : PollReturn(w)
    \/ \E id \in TaskIds : CallMarkRunning(id)
    \/ \E id \in TaskIds, result \in TaskResults : CallComplete(id, result)
    \/ \E id \in TaskIds, error \in ErrorTexts, retryable \in BOOLEAN : CallFail(id, error, retryable)
    \/ \E id \in TaskIds, resolution \in Resolutions : ResolveHitl(id, resolution)
    \/ \E id \in TaskIds : Cancel(id)
    \/ \E id \in TaskIds : NotFound(id)

Spec == Init /\ [][Next]_vars

\* submissions through enqueue_with_dedupe, overlapping in time
NextEnqueue ==
    \/ Enqueue(MaxTasks)
    \/ \E s \in Submitters, source \in Sources, key \in IdemKeys : EnqueueInsert(s, source, key)
    \/ \E s \in Submitters : EnqueueLookup(s)

SpecEnqueue == Init /\ [][NextEnqueue]_vars

\* poll_and_claim calls of several callers, overlapping in time, on a store whose
\* tasks are submitted, started, failed back to PENDING and cancelled meanwhile
NextPoll ==
    \/ Enqueue(MaxTasks)
    \/ \E w \in Workers : PollSelect(w)
    \/ \E w \in Workers : PollReturn(w)
    \/ \E id \in TaskIds : CallMarkRunning(id)
    \/ \E id \in TaskIds, error \in ErrorTexts : CallFail(id, error, TRUE)
    \/ \E id \in TaskIds : Cancel(id)

SpecPoll == Init /\ [][NextPoll]_vars

\* scheduler instances polling one store, with submitters and humans
NextWorkers ==
    \/ Enqueue(MaxTasks)
    \/ \E w \in Workers : PollSelect(w)
    \/ \E w \in Workers : RunOncePoll(w)
    \/ \E w \in Workers : MarkRunning(w)
    \/ \E w \in Workers : RunEngine(w)
    \/ \E w \in Workers : ReportFail(w)
    \/ \E w \in Workers : ReportComplete(w)
    \/ \E id \in TaskIds, resolution \in Resolutions : ResolveHitl(id, resolution)
    \/ \E id \in TaskIds : Cancel(id)

SpecWorkers == Init /\ [][NextWorkers]_vars

\* one scheduler instance and a caller who cancels tasks
NextCancel ==
    \/ Enqueue(MaxTasks)
    \/ PollSelect("w1")
    \/ RunOncePoll("w1")
    \/ MarkRunning("w1")
    \/ RunEngine("w1")
    \/ ReportFail("w1")
    \/ ReportComplete("w1")
    \/ \E id \in TaskIds : Cancel(id)

SpecCancel == Init /\ [][NextCancel]_vars

\* one scheduler instance, enqueue and resolve_hitl calls; no cancel
NextSingle ==
    \/ Enqueue(MaxTasks)
    \/ PollSelect("w1")
    \/ RunOncePoll("w1")
    \/ MarkRunning("w1")
    \/ RunEngine("w1")
    \/ ReportFail("w1")
    \/ ReportComplete("w1")
    \/ \E id \in TaskIds, resolution \in Resolutions : ResolveHitl(id, resolution)

SpecSingle == Init /\ [][NextSingle]_vars

\* ingest requests handled by several server processes on one store
NextIngest ==
    \/ \E s \in Submitters, source \in Sources \ {NoneStr}, key \in IdemKeys :
          IngestFind(s, source, key)
    \/ \E s \in Submitters : IngestInsert(s)
    \/ \E s \in Submitters : IngestLookup(s)

SpecIngest == Init /\ [][NextIngest]_vars

\* poll_and_claim called with any limit by several callers, overlapping in time, on
\* a store whose tasks are submitted and failed back to PENDING meanwhile
NextLimit ==
    \/ Enqueue(MaxTasks)
    \/ \E w \in Workers, limit \in 0..BatchSize : PollSelectLimit(w, limit)
    \/ \E w \in Workers : PollReturn(w)
    \/ \E id \in TaskIds, error \in ErrorTexts : CallFail(id, error, TRUE)

SpecLimit == Init /\ [][NextLimit]_vars

\* one worker in run_forever, a caller who may set its stop_event, and submitters
StopStep(w) ==
    \/ CheckStop(w)
    \/ CallRunOnce(w)
    \/ RunOncePoll(w)
    \/ MarkRunning(w)
    \/ RunEngine(w)
    \/ ReportFail(w)
    \/ ReportComplete(w)
    \/ Sleep(w)

NextStop ==
    \/ Enqueue(MaxTasks)
    \/ \E stop_event \in {NoneStr, "clear"} : RunForever("w1", stop_event)
    \/ SetStop("w1")
    \/ StopStep("w1")

SpecStop == Init /\ [][NextStop]_vars /\ WF_vars(StopStep("w1"))

\* a worker with the default batch size that keeps running cycles, submitters, and
\* humans who resolve paused tasks
run_once_default(w) ==
    \/ PollSelectLimit(w, worker_batch_size)
    \/ RunOncePoll(w)
    \/ MarkRunning(w)
    \/ RunEngine(w)
    \/ ReportFail(w)
    \/ ReportComplete(w)

NextStarve ==
    \/ Enqueue(MaxTasks)
    \/ run_once_default("w1")
    \/ \E id \in TaskIds, resolution \in Resolutions : ResolveHitl(id, resolution)

SpecStarve == Init /\ [][NextStarve]_vars /\ WF_vars(run_once_default("w1"))

\* the coordinate command on a store that a worker polls
NextCli ==
    \/ CliEnqueue
    \/ CliMarkRunning
    \/ CliRunCoordinate
    \/ CliReport
    \/ PollSelect("w1")
    \/ RunOncePoll("w1")
    \/ MarkRunning("w1")
    \/ RunEngine("w1")
    \/ ReportFail("w1")
    \/ ReportComplete("w1")

SpecCli == Init /\ [][NextCli]_vars

\* one step of a worker's run_forever loop
run_forever(w) ==
    \/ PollSelect(w)
    \/ RunOncePoll(w)
    \/ MarkRunning(w)
    \/ RunEngine(w)
    \/ ReportFail(w)
    \/ ReportComplete(w)

\* two scheduler instances on one store: w2 keeps polling, w1 may stop at any point
\* of its cycle (the database ends w1's claim transaction either way)
NextCrash ==
    \/ Enqueue(MaxDirectTasks)
    \/ \E w \in Workers : PollSelect(w)
    \/ \E w \in Workers : RunOncePoll(w)
    \/ \E w \in Workers : MarkRunning(w)
    \/ \E w \in Workers : RunEngine(w)
    \/ \E w \in Workers : ReportFail(w)
    \/ \E w \in Workers : ReportComplete(w)

SpecCrash ==
    /\ Init
    /\ [][NextCrash]_vars
    /\ WF_vars(RunOncePoll("w1"))
    /\ WF_vars(run_forever("w2"))

\* ------------------------------------------------------ coordination graph
\* _record_event(node, message): the message is kept where it carries the status
Event(node, message) == <<node, message>>

CountEvents(node) ==
    Cardinality({i \in 1..Len(run.events) : run.events[i][1] = node})

collect_constraints_node(state) ==
    [state EXCEPT !.exists = state.fs,
                  !.events = Append(@, Event("collect_constraints_node", ""))]

\* a node that starts the log afresh
propose_split_node_fresh_log(state, proposal) ==
    [state EXCEPT !.proposal = proposal,
                  !.events = <<Event("propose_split_node", "")>>]

propose_split_node(state, proposal) ==
    [state EXCEPT !.proposal = proposal,
                  !.events = Append(@, Event("propose_split_node", ""))]

agent_plan_node(state, plans) ==
    [state EXCEPT !.repo_plans = plans,
                  !.events = Append(@, Event("agent_plan_node", ""))]

contract_alignment_node(state, issues) ==
    [state EXCEPT !.contract_issues = issues,
                  !.events = Append(@, Event("contract_alignment_node", ""))]

\* a decide that tests for HITL before it tests for a failed plan
DecideStatus_hitl_first(state) ==
    LET missing_repos == \E r \in Repos : ~state.exists[r]
        ambiguous == state.proposal = ""
        agent_failed == \E r \in DOMAIN state.repo_plans : state.repo_plans[r] = "FAILED"
        agent_hitl_required ==
            \E r \in DOMAIN state.repo_plans : state.repo_plans[r] = "HITL_REQUIRED"
        contract_hitl_required == state.contract_issues > 0
    IN IF missing_repos \/ ambiguous \/ agent_hitl_required \/ contract_hitl_required
       THEN "HITL_REQUIRED"
       ELSE IF agent_failed THEN "FAILED" ELSE "CONVERGED"

DecideStatus(state) ==
    LET missing_repos == \E r \in Repos : ~state.exists[r]
        ambiguous == state.proposal = ""
        agent_failed == \E r \in DOMAIN state.repo_plans : state.repo_plans[r] = "FAILED"
        agent_hitl_required ==
            \E r \in DOMAIN state.repo_plans : state.repo_plans[r] = "HITL_REQUIRED"
        contract_hitl_required == state.contract_issues > 0
    IN IF agent_failed THEN "FAILED"
       ELSE IF missing_repos \/ ambiguous \/ agent_hitl_required \/ contract_hitl_required
            THEN "HITL_REQUIRED"
            ELSE "CONVERGED"

decide_node(state) ==
    [state EXCEPT !.round = @ + 1,
                  !.status = DecideStatus(state),
                  !.events = Append(@, Event("decide_node", DecideStatus(state)))]

\* a bound test that lets one round too many through
route_after_decide_off_by_one(state) ==
    IF state.status = "HITL_REQUIRED" /\ state.round <= state.max_rounds
    THEN "propose_split_node"
    ELSE "write_artifacts_node"

\* a route that loops on HITL_REQUIRED whatever the round
route_after_decide_unbounded(state) ==
    IF state.status = "HITL_REQUIRED"
    THEN "propose_split_node"
    ELSE "write_artifacts_node"

\* a route that loops while rounds are left, whatever the status
route_after_decide_any_status(state) ==
    IF state.round < state.max_rounds
    THEN "propose_split_node"
    ELSE "write_artifacts_node"

route_after_decide(state) ==
    IF state.status = "HITL_REQUIRED" /\ state.round < state.max_rounds
    THEN "propose_split_node"
    ELSE "write_artifacts_node"

\* the conditional mode's route wired into the interrupt graph
route_after_decide_interrupt_loops(state) ==
    IF state.status = "HITL_REQUIRED" /\ state.round < state.max_rounds
    THEN "propose_split_node"
    ELSE IF state.status = "HITL_REQUIRED" THEN "hitl_interrupt_node"
         ELSE "write_artifacts_node"

route_after_decide_interrupt(state) ==
    IF state.status = "HITL_REQUIRED"
    THEN "hitl_interrupt_node"
    ELSE "write_artifacts_node"

\* the conditional edge appends its own event
Routed(state, route, destination) ==
    [state EXCEPT !.node = destination,
                  !.events = Append(@, Event(route, destination))]

write_artifacts_node(state) ==
    [state EXCEPT !.events = Append(@, Event("write_artifacts_node", ""))]

\* one turn of _CompiledGraph.invoke's loop: the node, then the edge out of it
CollectConstraints ==
    /\ run.node = "collect_constraints_node"
    /\ run' = [collect_constraints_node(run) EXCEPT !.node = "propose_split_node"]
    /\ UNCHANGED queueVars

ProposeSplit ==
    /\ run.node = "propose_split_node"
    /\ \E proposal \in {"", "split"} :
         run' = [propose_split_node(run, proposal) EXCEPT !.node = "agent_plan_node"]
    /\ UNCHANGED queueVars

\* agent.plan(task): CodexAgent and GitHubCopilotAgent answer HITL_REQUIRED when they
\* have questions, and a repository path that does not exist is always a question
plan(exists) == IF exists THEN {"OK", "HITL_REQUIRED"} ELSE {"HITL_REQUIRED"}

AgentPlan ==
    /\ run.node = "agent_plan_node"
    /\ \E plans \in {ps \in [Repos -> PlanStatuses] :
                        \A r \in Repos : ps[r] \in plan(run.exists[r])} :
         run' = [agent_plan_node(run, plans) EXCEPT !.node = "contract_alignment_node"]
    /\ UNCHANGED queueVars

ContractAlignment ==
    /\ run.node = "contract_alignment_node"
    /\ \E issues \in 0..1 :
         run' = [contract_alignment_node(run, issues) EXCEPT !.node = "decide_node"]
    /\ UNCHANGED queueVars

Decide ==
    /\ run.node = "decide_node"
    /\ LET decided == decide_node(run)
       IN run' = IF run.hil_mode = "conditional"
                 THEN Routed(decided, "route_after_decide", route_after_decide(decided))
                 ELSE Routed(decided, "route_after_decide_interrupt",
                             route_after_decide_interrupt(decided))
    /\ UNCHANGED queueVars

\* the fallback interrupt() of langgraph_compat: a deferred decision, at once
interrupt == "defer"

\* hitl_interrupt_node with an interrupt() that returns: the decision is stored and
\* the edge to write_artifacts_node is taken
hitl_interrupt_node(state, resumed_value) ==
    [state EXCEPT !.human_decision = resumed_value,
                  !.events = Append(Append(@, Event("hitl_interrupt_node", "")),
                                    Event("hitl_decision_received", ""))]

HitlInterrupt ==
    /\ run.node = "hitl_interrupt_node"
    /\ run.runtime = "compat"
    /\ run' = [hitl_interrupt_node(run, interrupt) EXCEPT !.node = "write_artifacts_node"]
    /\ UNCHANGED queueVars

\* the checkpoint written at the suspension point: the whole WorkflowState
Snapshot(state) == <<[state EXCEPT !.checkpoint = <<>>, !.suspended_at = <<>>]>>

\* hitl_interrupt under the library's interrupt(): the state is saved under the run id
\* and the call returns to its caller with the run paused
Suspend ==
    /\ run.node = "hitl_interrupt_node"
    /\ run.runtime = "langgraph"
    /\ LET paused == [run EXCEPT !.node = "suspended",
                                 !.events = Append(@, Event("hitl_interrupt_node", ""))]
       IN run' = [paused EXCEPT !.checkpoint = Snapshot(paused),
                                !.suspended_at = Snapshot(paused)]
    /\ UNCHANGED queueVars

\* a resume that finds no checkpoint: the workflow again from the start, with the
\* decision in the initial state
resume_from_scratch(state, decision) ==
    [InitialState(state.hil_mode, state.runtime, state.max_rounds, state.fs) EXCEPT
        !.human_decision = decision,
        !.resume = decision,
        !.suspended_at = state.suspended_at]

\* a resume under the same run id: the checkpoint is loaded and consumed, the decision
\* is injected and the run goes on to write_artifacts
resume(state, decision) ==
    [state.checkpoint[1] EXCEPT
        !.node = "write_artifacts_node",
        !.human_decision = decision,
        !.events = Append(@, Event("hitl_decision_received", "")),
        !.checkpoint = <<>>,
        !.suspended_at = state.suspended_at,
        !.resume = decision]

Resume(decision) ==
    /\ run.node = "suspended"
    /\ run.checkpoint # <<>>
    /\ run' = resume(run, decision)
    /\ UNCHANGED queueVars

WriteArtifacts ==
    /\ run.node = "write_artifacts_node"
    /\ run' = [write_artifacts_node(run) EXCEPT !.node = END]
    /\ UNCHANGED queueVars

\* ------------------------------------------------------------ run_coordinate
\* result.questions_for_hitl of a plan: the agents answer HITL_REQUIRED exactly when
\* they have questions
questions_for_hitl(plan_status) ==
    IF plan_status = "HITL_REQUIRED" THEN <<"question">> ELSE <<>>

\* hitl_questions.extend(repo_plan.get("questions_for_hitl", [])) over the plans
PlanQuestions(repo_plans) ==
    LET extended[i \in 0..Len(repo_plans)] ==
            IF i = 0 THEN <<>> ELSE extended[i - 1] \o questions_for_hitl(repo_plans[i])
    IN extended[Len(repo_plans)]

\* final_state.get("__interrupt__", []): the payload of a run left suspended
Interrupts(state) == IF state.node = "suspended" THEN <<"payload">> ELSE <<>>

\* the RunOutcome built from the final state of the workflow
run_coordinate(final_state) ==
    [status |-> IF Interrupts(final_state) # <<>> /\ final_state.status # "FAILED"
                THEN "HITL_REQUIRED" ELSE final_state.status,
     hitl_questions |-> PlanQuestions(final_state.repo_plans) \o Interrupts(final_state)]

\* coordinator.coordinate() has returned
Returned_from_coordinate(state) == state.node \in {END, "suspended"} /\ state.events # <<>>

NextGraph ==
    \/ CollectConstraints
    \/ ProposeSplit
    \/ AgentPlan
    \/ ContractAlignment
    \/ Decide
    \/ HitlInterrupt
    \/ Suspend
    \/ \E decision \in Resolutions : Resume(decision)
    \/ WriteArtifacts

SpecGraph == InitGraph /\ [][NextGraph]_vars

\* invoke runs its loop to the end: no node is left waiting
SpecGraphFair == SpecGraph /\ WF_vars(NextGraph)

\* decide_node and what follows it, on any state a caller may hand to it
InitDecide ==
    /\ InitQueue
    /\ dialect = "sqlite"
    /\ \E hil_mode \in {"conditional", "interrupt"}, runtime \in {"compat", "langgraph"},
          max_rounds \in 1..MaxRounds, exists \in [Repos -> BOOLEAN],
          proposal \in {"", "split"}, plans \in [Repos -> PlanStatuses] \cup {<<>>},
          issues \in 0..1 :
          \E round \in 0..(max_rounds - 1) :
             run = [InitialState(hil_mode, runtime, max_rounds, exists) EXCEPT
                       !.node = "decide_node", !.exists = exists, !.round = round,
                       !.proposal = proposal, !.repo_plans = plans,
                       !.contract_issues = issues]

NextDecide ==
    \/ Decide
    \/ HitlInterrupt
    \/ Suspend
    \/ WriteArtifacts

SpecDecide == InitDecide /\ [][NextDecide]_vars

\* ------------------------------------------------ CodexApplyExecutor.apply
\* what os.getenv hands to apply
ExecEnvs ==
    [execution_mode : {"plan", "headless", "interactive"},
     codex_apply_enabled : BOOLEAN,
     allow_dirty : BOOLEAN,
     create_branch_flag : BOOLEAN,
     git_commit : BOOLEAN]

\* the repository and the PATH: git status may also fail
Worktrees ==
    [is_git_repo : BOOLEAN, tree : {"clean", "dirty", "GitError"}, codex_available : BOOLEAN]

\* a limit is None (no limit) or a number
Limits == {<<>>, <<MaxChange - 1>>}

Executors ==
    [max_changed_files : Limits, max_diff_lines : Limits, max_diff_bytes : Limits,
     allowlisted_commands : {<<"pytest">>}]

VerificationCmds == {<<>>, <<"pytest -q", "make">>}

\* what Codex may leave in the working tree: files changed, lines of diff, bytes of diff
Changes ==
    {c \in [files : 0..MaxChange, lines : 0..MaxChange, bytes : 0..MaxChange] :
        /\ c.files = 0 => c.bytes = 0
        /\ c.lines <= c.bytes}

\* subprocess.run's returncode; a timeout is reported as 124, an exception as 1
CodexReturnCodes == {0, 1, 2, 124}

ExecRest == <<coord, dialect, rows, worker, sub, lastResult, enqRet, resolved, raisedRuns, cancelled, handler, responses, forever, cli, run>>

ExecReturn(e, ok, exit_code, threshold_exceeded) ==
    [e EXCEPT !.pc = "returned", !.result = ExecResult(ok, exit_code, threshold_exceeded)]

\* apply is called: the environment is read
Apply(env, repo, self, verification_cmds) ==
    /\ exec.pc = "idle"
    /\ exec' = [exec EXCEPT !.pc = "gates", !.env = env, !.repo = repo, !.self = self,
                            !.verification_cmds = verification_cmds]
    /\ UNCHANGED ExecRest

FailedGate_allows_dirty(e) ==
    IF e.env.execution_mode \notin {"headless", "interactive"} THEN 1
    ELSE IF ~e.env.codex_apply_enabled THEN 2
    ELSE IF ~e.repo.is_git_repo THEN 3
    ELSE IF e.repo.tree = "GitError" THEN 4
    ELSE IF ~e.repo.codex_available THEN 5
    ELSE 0

\* the number of the first safety gate that refuses, 0 when all five pass
FailedGate(e) ==
    IF e.env.execution_mode \notin {"headless", "interactive"} THEN 1
    ELSE IF ~e.env.codex_apply_enabled THEN 2
    ELSE IF ~e.repo.is_git_repo THEN 3
    ELSE IF e.repo.tree = "GitError" \/ (e.repo.tree = "dirty" /\ ~e.env.allow_dirty) THEN 4
    ELSE IF ~e.repo.codex_available THEN 5
    ELSE 0

\* safety gates 1 to 5, then the executions directory
SafetyGates ==
    /\ exec.pc = "gates"
    /\ exec' = IF FailedGate(exec) # 0
               THEN ExecReturn(exec, FALSE, 2, FALSE)
               ELSE [exec EXCEPT !.pc = "branch", !.did = @ \cup {"mkdir"}]
    /\ UNCHANGED ExecRest

\* STEP 1: create the branch if configured
CreateBranch ==
    /\ exec.pc = "branch"
    /\ IF exec.env.create_branch_flag
       THEN \E git_error \in BOOLEAN :
               exec' = IF git_error
                       THEN ExecReturn(exec, FALSE, 1, FALSE)
                       ELSE [exec EXCEPT !.pc = "codex", !.did = @ \cup {"branch"}]
       ELSE exec' = [exec EXCEPT !.pc = "codex"]
    /\ UNCHANGED ExecRest

\* STEP 2: read the prompt and run the Codex CLI
ExecuteCodex ==
    /\ exec.pc = "codex"
    /\ \E prompt_readable \in BOOLEAN, returncode \in CodexReturnCodes, changes \in Changes :
          exec' = IF ~prompt_readable
                  THEN ExecReturn(exec, FALSE, 1, FALSE)
                  ELSE LET ran == [exec EXCEPT !.did = @ \cup {"codex"},
                                               !.returncode = returncode,
                                               !.changes = changes]
                       IN  IF returncode # 0
                           THEN ExecReturn(ran, FALSE, returncode, FALSE)
                           ELSE [ran EXCEPT !.pc = "verify"]
    /\ UNCHANGED ExecRest

startswith(s, prefix) ==
    Len(s) >= Len(prefix) /\ SubSeq(s, 1, Len(prefix)) = prefix

is_allowed(cmd, allowlisted_commands) ==
    \E i \in 1..Len(allowlisted_commands) : startswith(cmd, allowlisted_commands[i])

\* STEP 3: run the allowlisted verification commands; their failures are warnings
RunVerification ==
    /\ exec.pc = "verify"
    /\ LET ran == \E i \in 1..Len(exec.verification_cmds) :
                     is_allowed(exec.verification_cmds[i], exec.self.allowlisted_commands)
       IN  exec' = [exec EXCEPT !.pc = "measure",
                                !.did = IF ran THEN @ \cup {"verify"} ELSE @]
    /\ UNCHANGED ExecRest

\* STEP 4: changed files and diff figures; a GitError leaves them empty
GetChanges ==
    /\ exec.pc = "measure"
    /\ \E git_error \in BOOLEAN :
          exec' = [exec EXCEPT !.pc = "thresholds",
                               !.measured = IF git_error THEN NoChanges ELSE exec.changes]
    /\ UNCHANGED ExecRest

Exceeds(limit, n) == limit # <<>> /\ n > limit[1]

\* STEP 5: any configured limit exceeded by the figures of STEP 4
threshold_exceeded(self, m) ==
    \/ Exceeds(self.max_changed_files, m.files)
    \/ Exceeds(self.max_diff_lines, m.lines)
    \/ Exceeds(self.max_diff_bytes, m.bytes)

CheckThresholds ==
    /\ exec.pc = "thresholds"
    /\ exec' = IF threshold_exceeded(exec.self, exec.measured)
               THEN ExecReturn(exec, TRUE, 0, TRUE)
               ELSE [exec EXCEPT !.pc = "commit"]
    /\ UNCHANGED ExecRest

\* STEP 6: commit if configured and files changed, then SUCCESS
CommitChanges ==
    /\ exec.pc = "commit"
    /\ IF exec.env.git_commit /\ exec.measured.files > 0
       THEN \E git_error \in BOOLEAN :
               exec' = IF git_error
                       THEN ExecReturn(exec, FALSE, 1, FALSE)
                       ELSE ExecReturn([exec EXCEPT !.did = @ \cup {"commit"}], TRUE, 0, FALSE)
       ELSE exec' = ExecReturn(exec, TRUE, 0, FALSE)
    /\ UNCHANGED ExecRest

NextApply ==
    \/ \E env \in ExecEnvs, repo \in Worktrees, self \in Executors,
          verification_cmds \in VerificationCmds :
          Apply(env, repo, self, verification_cmds)
    \/ SafetyGates
    \/ CreateBranch
    \/ ExecuteCodex
    \/ RunVerification
    \/ GetChanges
    \/ CheckThresholds
    \/ CommitChanges

\* apply touches no queue: one backend is enough
InitApply ==
    /\ Init
    /\ dialect = "sqlite"

SpecApply == InitApply /\ [][NextApply]_vars

\* ------------------------------------------------- Coordinator.coordinate
CoordRest == <<exec, dialect, rows, worker, sub, lastResult, enqRet, resolved, raisedRuns, cancelled, handler, responses, forever, cli, run>>

\* ConvergeConfig: at least one repository (each path exists or not), max_rounds >= 1
RepoLists == UNION {[1..n -> BOOLEAN] : n \in 1..NumRepos}

\* Coordinator(config).coordinate() is called
Coordinate(repos, max_rounds) ==
    /\ coord.pc = "idle"
    /\ coord' = [coord EXCEPT !.pc = "collect", !.repos = repos, !.max_rounds = max_rounds]
    /\ UNCHANGED CoordRest

\* _collect_constraints: "repo path not found" for every path that does not exist
CoordCollectConstraints ==
    /\ coord.pc = "collect"
    /\ coord' = [coord EXCEPT !.pc = "propose",
                              !.status = "collecting_constraints",
                              !.missing = [i \in 1..Len(coord.repos) |-> ~coord.repos[i]]]
    /\ UNCHANGED CoordRest

\* _propose_split: one assignment per configured repository
CoordProposeSplit ==
    /\ coord.pc = "propose"
    /\ coord' = [coord EXCEPT !.pc = "converge",
                              !.status = "proposing_split",
                              !.assignments = Len(coord.repos)]
    /\ UNCHANGED CoordRest

\* _converge up to its loop
CoordConverge ==
    /\ coord.pc = "converge"
    /\ coord' = [coord EXCEPT !.pc = "loop", !.status = "converging"]
    /\ UNCHANGED CoordRest

rounds_left_inclusive(c) == c.round_number <= c.max_rounds

\* the loop condition of _converge
rounds_left(c) == c.round_number < c.max_rounds

\* CoordinationState.should_escalate
should_escalate(c) == c.round_number >= c.max_rounds

\* CoordinationState.increment_round
increment_round(c) == [c EXCEPT !.round_number = @ + 1]

\* one round up to its convergence check: increment_round, add_decision, the event
CoordRound ==
    /\ coord.pc = "loop"
    /\ rounds_left(coord)
    /\ coord' = [increment_round(coord) EXCEPT !.pc = "check",
                                               !.decisions = @ + 1,
                                               !.rounds = @ + 1]
    /\ UNCHANGED CoordRest

\* _check_convergence
check_convergence(c) ==
    LET has_missing_repo == \E i \in 1..Len(c.missing) : c.missing[i]
        has_split == c.assignments > 0
    IN  ~has_missing_repo /\ has_split /\ c.round_number >= 1

\* the end of a round: CONVERGED and return, or back to the loop condition
CoordCheck ==
    /\ coord.pc = "check"
    /\ coord' = IF check_convergence(coord)
                THEN [coord EXCEPT !.pc = "artifacts", !.status = "converged"]
                ELSE [coord EXCEPT !.pc = "loop"]
    /\ UNCHANGED CoordRest

\* the loop ran out: _escalate
CoordEscalate ==
    /\ coord.pc = "loop"
    /\ ~rounds_left(coord)
    /\ coord' = [coord EXCEPT !.pc = "artifacts", !.status = "escalated"]
    /\ UNCHANGED CoordRest

\* _generate_artifacts, and coordinate returns the state
CoordGenerateArtifacts ==
    /\ coord.pc = "artifacts"
    /\ coord' = [coord EXCEPT !.pc = "returned"]
    /\ UNCHANGED CoordRest

NextCoordinate ==
    \/ \E repos \in RepoLists, max_rounds \in 1..MaxRounds : Coordinate(repos, max_rounds)
    \/ CoordCollectConstraints
    \/ CoordProposeSplit
    \/ CoordConverge
    \/ CoordRound
    \/ CoordCheck
    \/ CoordEscalate
    \/ CoordGenerateArtifacts

SpecCoordinate == InitApply /\ [][NextCoordinate]_vars

\* ------------------------------------------------------------------ claims
\* C1: a poll_and_claim call that returns leaves every returned task CLAIMED, and a
\* call that starts later never takes a task that is CLAIMED or RUNNING.
ClaimExclusivity ==
    [][\A w \in Workers :
          /\ PollSelect(w) =>
                \A id \in Range(worker'[w].sel) : rows[id].status \notin {CLAIMED, RUNNING}
          /\ PollReturn(w) =>
                /\ worker'[w].batch = worker[w].sel
                /\ \A id \in Range(worker'[w].batch) : rows'[id].status = CLAIMED]_vars

ClaimExclusivityWitness ==
    \E w1 \in Workers : \E w2 \in Workers \ {w1} :
        /\ worker[w1].pc = "idle"
        /\ worker[w1].batch # <<>>
        /\ \A id \in Range(worker[w1].batch) : rows[id].status \in {CLAIMED, RUNNING}
        /\ worker[w2].pc = "claiming"
        /\ worker[w2].sel # <<>>
        /\ worker[w2].conc \cap Range(worker[w1].batch) = {}

\* a call has returned no task that a call overlapping it has returned
NoDoubleReturn(w) ==
    worker[w].pc # "claiming" => Range(worker[w].batch) \cap worker[w].conc = {}

\* C2: with PostgreSQL's FOR UPDATE SKIP LOCKED, no task is returned to two
\* poll_and_claim calls that overlap in time.
SkipLockedExclusive ==
    dialect = "postgresql" => \A w \in Workers : NoDoubleReturn(w)

SkipLockedExclusiveWitness ==
    /\ dialect = "postgresql"
    /\ \E w \in Workers :
          worker[w].pc = "idle" /\ worker[w].batch # <<>> /\ worker[w].conc # {}

\* C3: on the fallback path (SQLite), no task is returned to two poll_and_claim
\* calls that overlap in time.
FallbackExclusive ==
    dialect = "sqlite" => \A w \in Workers : NoDoubleReturn(w)

\* C4: all enqueue_with_dedupe calls with one non-empty (source, idempotency_key)
\* return the same task id, and exactly one task carries that dedupe key.
IdempotentSubmission ==
    /\ \A t1 \in enqRet, t2 \in enqRet :
          (/\ t1[1] = t2[1]
           /\ t1[2] = t2[2]
           /\ build_dedupe_key(t1[1], t1[2]) # NoneStr) => t1[3] = t2[3]
    /\ \A t \in enqRet :
          build_dedupe_key(t[1], t[2]) # NoneStr =>
             {id \in DOMAIN rows : rows[id].dedupe_key = build_dedupe_key(t[1], t[2])}
                = {t[3]}

IdempotentSubmissionWitness ==
    /\ lastResult = "existing"
    /\ \E t \in enqRet : rows[t[3]].dedupe_key # NoneStr
    /\ \E s \in Submitters : sub[s].pc = "lookup"

\* C5: fail adds 1 to attempts and records the error; the task is then PENDING with
\* claimed_at cleared iff retryable and attempts < max_attempts, and FAILED otherwise.
RetryBound ==
    [][\A id \in TaskIds, error \in ErrorTexts, retryable \in BOOLEAN :
          CallFail(id, error, retryable) =>
             /\ rows'[id].attempts = rows[id].attempts + 1
             /\ rows'[id].last_error = error
             /\ IF retryable /\ rows'[id].attempts < MaxAttempts
                THEN rows'[id].status = PENDING /\ rows'[id].claimed_at = FALSE
                ELSE rows'[id].status = FAILED]_vars

RetryBoundWitness ==
    \E id \in DOMAIN rows :
        /\ rows[id].attempts = MaxAttempts
        /\ rows[id].status = FAILED
        /\ rows[id].last_error = "boom"

\* C6: a task whose engine run raises every time is run in exactly max_attempts
\* cycles: between cycles it is PENDING with attempts = k after k < max_attempts runs
\* and FAILED with attempts = max_attempts after that, it is never run again, and
\* run_once never raises.
RetryUntilFailed ==
    /\ \A w \in Workers : worker[w].pc # "crashed"
    /\ \A id \in DOMAIN rows :
          raisedRuns[id] >= 0 =>
             /\ raisedRuns[id] <= MaxAttempts
             /\ worker["w1"].pc = "idle" =>
                   /\ rows[id].attempts = raisedRuns[id]
                   /\ rows[id].status =
                         IF raisedRuns[id] < MaxAttempts THEN PENDING ELSE FAILED

RetryUntilFailedWitness ==
    /\ worker["w1"].pc = "idle"
    /\ \E id \in DOMAIN rows :
          raisedRuns[id] = MaxAttempts /\ rows[id].status = FAILED

ResolutionOnlyWhilePaused ==
    [][\A id \in DOMAIN rows :
          /\ rows'[id].hitl_resolution_json # rows[id].hitl_resolution_json =>
                /\ rows[id].status = HITL_REQUIRED
                /\ \E resolution \in Resolutions : ResolveHitl(id, resolution)
          /\ \A resolution \in Resolutions :
                (ResolveHitl(id, resolution) /\ rows[id].status = HITL_REQUIRED) =>
                   /\ rows'[id].status = PENDING
                   /\ get_hitl_resolution(id)' = resolution]_vars

ResolutionOnlyWhilePausedWitness ==
    /\ lastResult = "resolved"
    /\ \E id \in DOMAIN rows :
          /\ rows[id].status = PENDING
          /\ get_hitl_resolution(id) = "{}"

\* C9: the worker runs the engine with thread_id = the task id and with the resolution
\* last accepted by resolve_hitl (none if there was none), and a run that returns
\* CONVERGED leaves the task SUCCEEDED.
ResolveAndResume ==
    /\ [](\A w \in Workers :
             worker[w].pc = "report" =>
                /\ worker[w].call.thread_id = Current(w)
                /\ worker[w].call.hitl_resolution = resolved[Current(w)])
    /\ [][\A w \in Workers :
             (ReportComplete(w) /\ worker[w].outcome.status = "CONVERGED") =>
                rows'[Current(w)].status = SUCCEEDED]_vars

ResolveAndResumeWitness ==
    \E id \in DOMAIN rows :
        /\ rows[id].status = SUCCEEDED
        /\ resolved[id] # NoneStr

\* every decide of the run so far gave HITL_REQUIRED
EveryDecideHitl ==
    \A i \in 1..Len(run.events) :
        run.events[i][1] = "decide_node" => run.events[i][2] = "HITL_REQUIRED"

\* C10: a conditional-mode run whose every decide gives HITL_REQUIRED runs
\* propose_split and decide max_rounds times each and ends HITL_REQUIRED with
\* round = max_rounds.
BoundedLooping ==
    (run.node = END /\ run.hil_mode = "conditional" /\ EveryDecideHitl) =>
        /\ CountEvents("propose_split_node") = run.max_rounds
        /\ CountEvents("decide_node") = run.max_rounds
        /\ run.status = "HITL_REQUIRED"
        /\ run.round = run.max_rounds

BoundedLoopingWitness ==
    /\ run.node = END
    /\ run.hil_mode = "conditional"
    /\ run.max_rounds = 3
    /\ \E r1 \in Repos, r2 \in Repos : run.exists[r1] /\ ~run.exists[r2]
    /\ EveryDecideHitl
    /\ CountEvents("decide_node") = 3
    /\ run.round = 3

\* C11: in conditional mode every run reaches write_artifacts and then the end of the
\* graph; each pass through decide adds exactly 1 to round, which never exceeds
\* max_rounds.
ConditionalTerminates ==
    /\ [][(Decide /\ run.hil_mode = "conditional") =>
             /\ run'.round = run.round + 1
             /\ run'.round <= run'.max_rounds]_vars
    /\ (run.hil_mode = "conditional") ~>
          (run.node = END /\ CountEvents("write_artifacts_node") = 1)

ConditionalTerminatesWitness ==
    /\ run.node = END
    /\ run.hil_mode = "conditional"
    /\ run.max_rounds = 3
    /\ run.round = 2
    /\ run.status = "CONVERGED"
    /\ CountEvents("write_artifacts_node") = 1

\* the plans of the state handed to decide, as the claim reads them
AnyPlan(status) == \E r \in DOMAIN run.repo_plans : run.repo_plans[r] = status

\* C12: decide gives FAILED if any plan is FAILED; else HITL_REQUIRED if a repository
\* is missing, the proposal is empty, any plan is HITL_REQUIRED or there are contract
\* issues; else CONVERGED.
DecideAggregates ==
    [][Decide =>
          /\ AnyPlan("FAILED") => run'.status = "FAILED"
          /\ (/\ ~AnyPlan("FAILED")
              /\ \/ \E r \in Repos : ~run.exists[r]
                 \/ run.proposal = ""
                 \/ AnyPlan("HITL_REQUIRED")
                 \/ run.contract_issues > 0) => run'.status = "HITL_REQUIRED"
          /\ (/\ ~AnyPlan("FAILED")
              /\ \A r \in Repos : run.exists[r]
              /\ run.proposal # ""
              /\ ~AnyPlan("HITL_REQUIRED")
              /\ run.contract_issues = 0) => run'.status = "CONVERGED"]_vars

DecideAggregatesWitness ==
    /\ run.node = "write_artifacts_node"
    /\ run.status = "FAILED"
    /\ AnyPlan("FAILED")
    /\ AnyPlan("HITL_REQUIRED")
    /\ \E r \in Repos : ~run.exists[r]
    /\ run.round >= 1

\* C13: in conditional mode decide is followed by propose_split iff the status is
\* HITL_REQUIRED and round < max_rounds, and by write_artifacts and the end otherwise.
ConditionalRouting ==
    [][/\ (Decide /\ run.hil_mode = "conditional") =>
             IF run'.status = "HITL_REQUIRED" /\ run'.round < run'.max_rounds
             THEN run'.node = "propose_split_node"
             ELSE run'.node = "write_artifacts_node"
       /\ run.node = "write_artifacts_node" =>
             (run'.node = END /\ run'.round = run.round)]_vars

ConditionalRoutingWitness ==
    /\ run.node = END
    /\ run.hil_mode = "conditional"
    /\ run.status = "FAILED"
    /\ AnyPlan("FAILED")
    /\ run.round = 1
    /\ run.max_rounds = 3

\* C14: in interrupt mode decide is followed by hitl_interrupt iff the status is
\* HITL_REQUIRED and by write_artifacts otherwise, without hitl_interrupt; decide
\* runs once per run, so round ends at 1 whatever max_rounds is.
InterruptRouting ==
    run.hil_mode = "interrupt" =>
        /\ CountEvents("decide_node") <= 1
        /\ CountEvents("propose_split_node") <= 1
        /\ run.round = CountEvents("decide_node")
        /\ CountEvents("decide_node") = 1 =>
              /\ run.node # "decide_node"
              /\ IF run.status = "HITL_REQUIRED"
                 THEN \/ run.node = "hitl_interrupt_node"
                      \/ CountEvents("hitl_interrupt_node") = 1
                 ELSE /\ run.node \in {"write_artifacts_node", END}
                      /\ CountEvents("hitl_interrupt_node") = 0
        /\ run.node = END => run.round = 1

InterruptRoutingWitness ==
    /\ run.hil_mode = "interrupt"
    /\ run.node = END
    /\ run.max_rounds = 3
    /\ run.round = 1
    /\ run.status = "CONVERGED"
    /\ CountEvents("hitl_interrupt_node") = 0

\* a run over a missing repository is never CONVERGED, ends a conditional run
\* HITL_REQUIRED with its rounds used up, and in interrupt mode is routed to
\* hitl_interrupt
MissingRepoNeverConverged ==
    (\E r \in Repos : ~run.fs[r]) =>
        /\ run.status # "CONVERGED"
        /\ (run.hil_mode = "conditional" /\ run.node = END) =>
              (run.status = "HITL_REQUIRED" /\ run.round = run.max_rounds)
        /\ (run.hil_mode = "interrupt" /\ CountEvents("decide_node") = 1) =>
              /\ run.status = "HITL_REQUIRED"
              /\ CountEvents("route_after_decide_interrupt") = 1 =>
                    \/ run.node = "hitl_interrupt_node"
                    \/ CountEvents("hitl_interrupt_node") = 1

\* the run has gone through hitl_interrupt and nobody has resumed it
Unresumed ==
    /\ run.hil_mode = "interrupt"
    /\ CountEvents("hitl_interrupt_node") >= 1
    /\ run.resume = NoneStr

\* C15: a run with a repository that does not exist never has status CONVERGED; in
\* conditional mode it ends HITL_REQUIRED with round = max_rounds, in interrupt mode it
\* pauses at hitl_interrupt.
MissingRepoEscalates ==
    /\ MissingRepoNeverConverged
    /\ ((\E r \in Repos : ~run.fs[r]) /\ Unresumed) => run.node = "suspended"

\* C16: in interrupt mode a run that decide sent to hitl_interrupt is suspended there:
\* until a resume supplies a decision, human_decision is unset and write_artifacts has
\* not run; after the resume human_decision is the decision supplied.
SuspendedUntilResume ==
    /\ Unresumed =>
          /\ run.node = "suspended"
          /\ run.human_decision = NoneStr
          /\ CountEvents("write_artifacts_node") = 0
    /\ (run.hil_mode = "interrupt" /\ run.resume # NoneStr) =>
          run.human_decision = run.resume

EventCount(events, node) ==
    Cardinality({i \in 1..Len(events) : events[i][1] = node})

Terminal == {SUCCEEDED, FAILED, CANCELLED}

\* C18: once a task is SUCCEEDED, FAILED or CANCELLED, no queue operation changes its
\* status again.
TerminalIsFinal ==
    [][\A id \in DOMAIN rows :
          rows[id].status \in Terminal => rows'[id].status = rows[id].status]_vars

\* C19: after a successful cancel the task is never again selected by poll_and_claim
\* and no engine run is started for it.
CancelIsFinal ==
    [][\A w \in Workers :
          /\ PollSelect(w) => Range(worker'[w].sel) \cap cancelled = {}
          /\ RunEngine(w) => Current(w) \notin cancelled]_vars

\* C20: cancel makes a PENDING, CLAIMED, RUNNING or HITL_REQUIRED task CANCELLED; on a
\* SUCCEEDED or FAILED task it raises and changes nothing.
CancelTransitions ==
    [][\A id \in TaskIds :
          Cancel(id) =>
             /\ rows[id].status \in {PENDING, CLAIMED, RUNNING, HITL_REQUIRED} =>
                   /\ rows' = [rows EXCEPT ![id].status = CANCELLED]
                   /\ lastResult' = "cancelled"
             /\ rows[id].status \in {SUCCEEDED, FAILED} =>
                   /\ rows' = rows
                   /\ lastResult' = "ValueError: Cannot cancel"]_vars

CancelTransitionsWitness ==
    /\ lastResult = "ValueError: Cannot cancel"
    /\ \E id \in DOMAIN rows : rows[id].status = SUCCEEDED /\ id \in cancelled

\* the lifecycle edges, each with the operation that takes it
LifecycleEdge(id, w) ==
    LET from == rows[id].status
        to == rows'[id].status
    IN \/ from = PENDING /\ to = CLAIMED /\ RunOncePoll(w)
       \/ from = CLAIMED /\ to = RUNNING /\ MarkRunning(w)
       \/ from = RUNNING /\ to \in {SUCCEEDED, HITL_REQUIRED} /\ ReportComplete(w)
       \/ from = RUNNING /\ to \in {PENDING, FAILED} /\ ReportFail(w)
       \/ /\ from = HITL_REQUIRED
          /\ to = PENDING
          /\ \E resolution \in Resolutions : ResolveHitl(id, resolution)

\* C21: with enqueue calls, one worker's run_once cycles and resolve_hitl calls, every
\* change of a task's status is a lifecycle edge taken by the operation of that edge.
LifecycleEdgesOnly ==
    [][\A id \in DOMAIN rows :
          rows'[id].status # rows[id].status => LifecycleEdge(id, "w1")]_vars

LifecycleEdgesOnlyWitness ==
    \E id \in DOMAIN rows :
        /\ rows[id].status = SUCCEEDED
        /\ resolved[id] # NoneStr
        /\ rows[id].attempts >= 1

\* C22: run_once runs the engine on a task it has marked RUNNING and then reports
\* once: complete SUCCEEDED for CONVERGED, complete HITL_REQUIRED with the outcome's
\* questions for HITL_REQUIRED, fail with retryable = true for FAILED or an exception.
ReportsOutcome ==
    [][\A w \in Workers :
          LET id == Current(w)
              outcome == worker[w].outcome
          IN /\ RunEngine(w) => rows[id].status = RUNNING
             /\ (worker[w].pc = "report" /\ worker'[w] # worker[w]) =>
                   /\ rows'[id] # rows[id]
                   /\ \A o \in DOMAIN rows \ {id} : rows'[o] = rows[o]
                   /\ outcome.status = "CONVERGED" =>
                         /\ rows'[id].status = SUCCEEDED
                         /\ rows'[id].attempts = rows[id].attempts
                   /\ outcome.status = "HITL_REQUIRED" =>
                         /\ rows'[id].status = HITL_REQUIRED
                         /\ rows'[id].attempts = rows[id].attempts
                         /\ outcome.hitl_questions # <<>> =>
                               /\ Truthy(rows'[id].hitl_questions_json)
                               /\ JsonLoads(rows'[id].hitl_questions_json) =
                                     outcome.hitl_questions
                   /\ outcome.status \in {"FAILED", "RAISED"} =>
                         /\ rows'[id].attempts = rows[id].attempts + 1
                         /\ rows'[id].status =
                               IF rows'[id].attempts < MaxAttempts THEN PENDING ELSE FAILED
                   /\ worker'[w].pc # "report"]_vars

ReportsOutcomeWitness ==
    \E id \in DOMAIN rows :
        /\ rows[id].status = HITL_REQUIRED
        /\ get_hitl_questions(id) = <<"q1">>
        /\ rows[id].attempts = 2
        /\ worker["w1"].pc = "idle"
        /\ worker["w1"].ret = 1

\* C23: a task of the batch whose run fails or raises does not stop run_once: the
\* error is recorded cut to 500 characters, the other tasks of the batch are processed,
\* run_once returns the number of tasks it claimed and leaves none of them CLAIMED or
\* RUNNING.
BatchSurvivesFailure ==
    /\ [](\A w \in Workers : worker[w].pc # "crashed")
    /\ [][\A w \in Workers :
             /\ ReportFail(w) =>
                   LET message == worker[w].outcome.message
                       recorded == rows'[Current(w)].last_error
                   IN /\ Len(recorded) <= MAX_ERROR_LENGTH
                      /\ Len(recorded) <= Len(message)
                      /\ recorded = SubSeq(message, 1, Len(recorded))
                      /\ Len(message) <= MAX_ERROR_LENGTH => recorded = message
                      /\ worker[w].idx < Len(worker[w].batch) =>
                            (worker'[w].pc = "mark" /\ worker'[w].idx = worker[w].idx + 1)
             /\ (worker[w].pc = "report" /\ worker'[w].pc = "idle") =>
                   /\ worker[w].idx = Len(worker[w].batch)
                   /\ worker'[w].ret = Len(worker[w].batch)
                   /\ \A id \in Range(worker[w].batch) :
                         rows'[id].status \notin {CLAIMED, RUNNING}]_vars

BatchSurvivesFailureWitness ==
    /\ worker["w1"].pc = "idle"
    /\ worker["w1"].ret = 2
    /\ \E id1 \in DOMAIN rows, id2 \in DOMAIN rows :
          /\ rows[id1].created_at < rows[id2].created_at
          /\ rows[id1].attempts = 1
          /\ rows[id1].last_error # NoneStr
          /\ Len(rows[id1].last_error) = MAX_ERROR_LENGTH
          /\ rows[id2].attempts = 0
          /\ rows[id2].status = SUCCEEDED

\* complete or fail has been called for the task at least once
Reported(id) ==
    /\ id \in DOMAIN rows
    /\ \/ rows[id].attempts > 0
       \/ rows[id].status \in {SUCCEEDED, HITL_REQUIRED, FAILED}

\* C24: every enqueued task is eventually reported by complete or fail at least once,
\* also when the worker that claimed it stops before reporting, as long as another
\* worker keeps polling.
AtLeastOnce ==
    \A id \in TaskIds : (id \in DOMAIN rows) ~> Reported(id)

\* sel holds the min(limit, number of candidates) candidates with the earliest
\* created_at, in ascending created_at order
EarliestOf(sel, candidates, limit) ==
    /\ Len(sel) = IF limit < Cardinality(candidates) THEN limit ELSE Cardinality(candidates)
    /\ Cardinality(Range(sel)) = Len(sel)
    /\ Range(sel) \subseteq candidates
    /\ \A i \in 1..Len(sel), j \in 1..Len(sel) :
          i < j => rows[sel[i]].created_at <= rows[sel[j]].created_at
    /\ \A id \in Range(sel), o \in candidates \ Range(sel) :
          rows[id].created_at <= rows[o].created_at

Pending == {id \in DOMAIN rows : rows[id].status = PENDING}

\* the commit of a poll_and_claim call changes the status of its batch only
ClaimsBatchOnly ==
    \A w \in Workers :
        PollReturn(w) =>
            /\ worker'[w].batch = worker[w].sel
            /\ \A id \in DOMAIN rows :
                  rows'[id].status =
                      IF id \in Range(worker[w].sel) THEN CLAIMED ELSE rows[id].status

\* C25 as stated: poll_and_claim(limit) returns exactly the min(limit, number of PENDING
\* tasks) PENDING tasks with the earliest created_at, in ascending created_at order, and
\* changes the status of no other task.
ClaimsEarliestPending ==
    [][/\ \A w \in Workers, limit \in 0..BatchSize :
            PollSelectLimit(w, limit) => EarliestOf(worker'[w].sel, Pending, limit)
       /\ ClaimsBatchOnly]_vars

\* C25 (amended): poll_and_claim(limit) returns, in ascending created_at order, the
\* min(limit, n) earliest of the n PENDING tasks that no other poll_and_claim call in
\* flight holds locked (on PostgreSQL; elsewhere all PENDING tasks), and changes the
\* status of no other task.
ClaimsEarliestUnlocked ==
    [][/\ \A w \in Workers, limit \in 0..BatchSize :
            PollSelectLimit(w, limit) =>
                EarliestOf(worker'[w].sel, {id \in Pending : ~LockedByOther(id, w)}, limit)
       /\ ClaimsBatchOnly]_vars

ClaimsEarliestUnlockedWitness ==
    /\ dialect = "postgresql"
    /\ Cardinality(Pending) = 2
    /\ worker["w1"].pc = "claiming"
    /\ worker["w2"].pc = "claiming"
    /\ Len(worker["w1"].sel) = 1
    /\ Len(worker["w2"].sel) = 1
    /\ rows[worker["w1"].sel[1]].created_at < rows[worker["w2"].sel[1]].created_at
    /\ worker["w1"].sel[1] > worker["w2"].sel[1]

\* C26: complete(id, result) sets the status to the supplied one, stores the supplied
\* artifacts_dir and status_reason, makes get_hitl_questions(id) return exactly the
\* supplied list of questions, and clears last_error.
CompletePersistsResult ==
    [][\A id \in TaskIds, result \in TaskResults :
          CallComplete(id, result) =>
              /\ rows'[id].status = result.status
              /\ rows'[id].artifacts_dir = result.artifacts_dir
              /\ rows'[id].status_reason = result.status_reason
              /\ rows'[id].last_error = NoneStr
              /\ get_hitl_questions(id)' = result.hitl_questions]_vars

\* C27: get_hitl_questions(id) returns questions only while the task is HITL_REQUIRED.
QuestionsOnlyWhilePaused ==
    \A id \in DOMAIN rows :
        get_hitl_questions(id) # <<>> => rows[id].status = HITL_REQUIRED

\* C28: enqueue_with_dedupe never raises when a task with the same non-empty
\* (source, idempotency_key) exists already or was inserted by an overlapping call: the
\* lookup after the uniqueness violation finds that task and returns it.
NeverRaisesOnDuplicate ==
    /\ [](lastResult # "IntegrityError")
    /\ [][\A s \in Submitters :
             EnqueueLookup(s) =>
                 \E id \in DOMAIN rows :
                     /\ rows[id].dedupe_key # NoneStr
                     /\ rows[id].dedupe_key =
                            build_dedupe_key(sub[s].source, sub[s].idempotency_key)
                     /\ <<sub[s].source, sub[s].idempotency_key, id>> \in enqRet'
                     /\ lastResult' = "existing"
                     /\ rows' = rows]_vars

NeverRaisesOnDuplicateWitness ==
    /\ lastResult = "existing"
    /\ \A s \in Submitters : sub[s].pc = "idle"
    /\ Cardinality(DOMAIN rows) = 1
    /\ \E t \in enqRet : t[1] = "a" /\ t[2] = "c" /\ rows[t[3]].dedupe_key = "a:c"

\* the step adds one task with an id no task had, PENDING with attempts 0, and
\* leaves every other task as it was
CreatesNewTask ==
    \E id \in DOMAIN rows' \ DOMAIN rows :
        /\ DOMAIN rows' = DOMAIN rows \cup {id}
        /\ rows'[id].status = PENDING
        /\ rows'[id].attempts = 0
        /\ \A o \in DOMAIN rows : rows'[o] = rows[o]
        /\ lastResult' = "created"

Missing(v) == v = NoneStr \/ v = ""

\* C30: enqueue, and enqueue_with_dedupe with a missing or empty source or idempotency
\* key, always creates a new task with a fresh id, status PENDING and attempts 0,
\* however many identical requests were submitted before.
NoDedupeWithoutKey ==
    [][/\ Enqueue(MaxTasks) => CreatesNewTask
       /\ \A s \in Submitters, source \in Sources, key \in IdemKeys :
             (EnqueueInsert(s, source, key) /\ (Missing(source) \/ Missing(key))) =>
                 /\ CreatesNewTask
                 /\ \E id \in DOMAIN rows' \ DOMAIN rows :
                       <<source, key, id>> \in enqRet']_vars

NoDedupeWithoutKeyWitness ==
    /\ lastResult = "created"
    /\ \E id1 \in DOMAIN rows, id2 \in DOMAIN rows :
          /\ id1 # id2
          /\ rows[id1].source = ""
          /\ rows[id2].source = ""
          /\ rows[id1].idempotency_key = "c"
          /\ rows[id2].idempotency_key = "c"
          /\ rows[id1].dedupe_key = NoneStr
          /\ rows[id2].dedupe_key = NoneStr
          /\ <<"", "c", id1>> \in enqRet
          /\ <<"", "c", id2>> \in enqRet

\* C29: among the submissions with one non-empty (source, idempotency_key), the one
\* that created the task reports deduped = false and every other one reports
\* deduped = true, also when submissions overlap in time.
DedupedFlag ==
    \A r \in responses :
        build_dedupe_key(r.source, r.idempotency_key) # NoneStr =>
            (r.deduped <=> ~r.created)

\* the columns no operation but fail may touch
SameIdentity(id) ==
    /\ id \in DOMAIN rows'
    /\ rows'[id].attempts = rows[id].attempts
    /\ rows'[id].request_json = rows[id].request_json
    /\ rows'[id].created_at = rows[id].created_at

\* C31: attempts never decreases and only fail changes it; poll_and_claim,
\* mark_running, complete, resolve_hitl and cancel leave every task's attempts, request,
\* id and created_at as they were.
AttemptsOnlyByFail ==
    [][\A id \in DOMAIN rows :
          /\ id \in DOMAIN rows'
          /\ rows'[id].attempts >= rows[id].attempts
          /\ rows'[id].attempts # rows[id].attempts =>
                \E error \in ErrorTexts, retryable \in BOOLEAN : CallFail(id, error, retryable)
          /\ (\/ \E w \in Workers : PollReturn(w)
              \/ \E o \in TaskIds : CallMarkRunning(o)
              \/ \E o \in TaskIds, result \in TaskResults : CallComplete(o, result)
              \/ \E o \in TaskIds, resolution \in Resolutions : ResolveHitl(o, resolution)
              \/ \E o \in TaskIds : Cancel(o)) => SameIdentity(id)]_vars

AttemptsOnlyByFailWitness ==
    \E id \in DOMAIN rows :
        /\ rows[id].attempts = 2
        /\ rows[id].status = CANCELLED
        /\ rows[id].claimed_at
        /\ resolved[id] # NoneStr
        /\ rows[id].artifacts_dir # NoneStr

\* the nodes of the workflow graph
NodeNames ==
    {"collect_constraints_node", "propose_split_node", "agent_plan_node",
     "contract_alignment_node", "decide_node", "hitl_interrupt_node",
     "write_artifacts_node"}

\* C32: every step of a run keeps the events recorded so far, in their order, and only
\* adds events after them; a step that executes a node adds an event naming that node.
EventLogAppendOnly ==
    [][/\ Len(run'.events) >= Len(run.events)
       /\ SubSeq(run'.events, 1, Len(run.events)) = run.events
       /\ run.node \in NodeNames =>
             \E i \in (Len(run.events) + 1)..Len(run'.events) :
                 run'.events[i][1] = run.node]_vars

EventLogAppendOnlyWitness ==
    /\ run.node = END
    /\ CountEvents("propose_split_node") = MaxRounds
    /\ CountEvents("decide_node") = MaxRounds
    /\ CountEvents("write_artifacts_node") = 1
    /\ run.events[1][1] = "collect_constraints_node"
    /\ run.events[Len(run.events)][1] = "write_artifacts_node"

\* C33: run_forever looks at the stop signal only at the top of its loop: with the
\* signal set it starts no run_once cycle there and returns, it returns from nowhere
\* else, no task is CLAIMED or RUNNING when it returns, and once the signal is set it
\* does return.
StopBetweenCycles ==
    /\ [][/\ CheckStop("w1") =>
               (forever'["w1"].pc = "returned" <=> forever["w1"].stop_event = "set")
          /\ forever'["w1"].pc # forever["w1"].pc =>
               (\/ CheckStop("w1")
                \/ Sleep("w1")
                \/ \E stop_event \in {NoneStr, "clear"} : RunForever("w1", stop_event))
          /\ CallRunOnce("w1") => forever["w1"].pc = "run_once"]_vars
    /\ [](forever["w1"].pc \in {"check", "returned"} =>
             \A id \in DOMAIN rows : rows[id].status \notin {CLAIMED, RUNNING})
    /\ [](forever["w1"].pc = "returned" => worker["w1"].pc = "idle")
    /\ (forever["w1"].stop_event = "set") ~> (forever["w1"].pc = "returned")

StopBetweenCyclesWitness ==
    /\ forever["w1"].pc = "returned"
    /\ \E id1 \in DOMAIN rows, id2 \in DOMAIN rows :
          /\ rows[id1].status = PENDING
          /\ rows[id1].attempts = 1
          /\ rows[id2].status = SUCCEEDED

\* C34: under a worker that keeps running cycles, every PENDING task is eventually
\* claimed, whatever retries and HITL resolutions return other tasks to PENDING.
PendingEventuallyClaimed ==
    \A id \in TaskIds :
        (id \in DOMAIN rows /\ rows[id].status = PENDING)
            ~> (id \in DOMAIN rows /\ rows[id].status = CLAIMED)

\* C35: every engine outcome with status HITL_REQUIRED carries at least one question,
\* whichever condition caused the escalation.
EscalationCarriesQuestions ==
    (Returned_from_coordinate(run) /\ run_coordinate(run).status = "HITL_REQUIRED")
        => run_coordinate(run).hitl_questions # <<>>

\* C36: submissions whose (source, idempotency_key) pairs differ are never
\* deduplicated against each other: the task a submission gets back was created by a
\* submission of the same pair.
DistinctPairsDistinctTasks ==
    \A t \in enqRet :
        /\ rows[t[3]].source = t[1]
        /\ rows[t[3]].idempotency_key = t[2]

\* C37: no polling worker ever claims the task that the coordinate command persisted
\* and runs itself.
CliTaskNotClaimed ==
    \A w \in Workers :
        cli.task \notin Range(worker[w].batch)

\* the gates the executor promises: an executing mode, apply enabled, a git
\* repository, a clean tree unless dirty is allowed, a Codex CLI
GatesPassed(e) ==
    /\ e.env.execution_mode \in {"interactive", "headless"}
    /\ e.env.codex_apply_enabled
    /\ e.repo.is_git_repo
    /\ (e.repo.tree = "clean" \/ e.env.allow_dirty)
    /\ e.repo.codex_available

\* C38: apply creates no branch, runs neither Codex nor a verification command and
\* commits nothing unless every safety gate has passed, and a call on which a gate
\* fails returns a failed result with exit code 2.
MutatesOnlyAfterGates ==
    /\ exec.did # {} => GatesPassed(exec)
    /\ (exec.pc = "returned" /\ ~GatesPassed(exec)) =>
          /\ ~exec.result.ok
          /\ exec.result.exit_code = 2

MutatesOnlyAfterGatesWitness ==
    /\ exec.pc = "returned"
    /\ exec.repo.tree = "dirty"
    /\ exec.did = {"mkdir", "branch", "codex", "verify", "commit"}

\* C39: a call whose Codex run left changes above a configured limit returns ok with
\* threshold_exceeded and has not committed, and a commit happens only below every
\* limit, with committing enabled and at least one changed file.
ThresholdStopsCommit ==
    /\ (/\ exec.pc = "returned"
        /\ exec.returncode = 0
        /\ threshold_exceeded(exec.self, exec.changes)) =>
          /\ "commit" \notin exec.did
          /\ exec.result.ok
          /\ exec.result.threshold_exceeded
    /\ "commit" \in exec.did =>
          /\ ~threshold_exceeded(exec.self, exec.changes)
          /\ exec.env.git_commit
          /\ exec.changes.files > 0

====
